---- MODULE Spec2Model ----
(***************************************************************************)
(* Usage-quota accounting of the prompt-enhancement backend                *)
(* (src/backend/app.py): the /generate handler, its quota gate, the        *)
(* read-modify-write of update_prompt_usage_stats, the persistence of      *)
(* generation events and the /auth/register handler.                       *)
(*                                                                         *)
(* A Firestore document is a dict: a function whose DOMAIN is the set of   *)
(* fields present.  A collection is a function whose DOMAIN is the set of  *)
(* ids of the documents that exist.  Calendar dates (date().isoformat())   *)
(* are day numbers; the code only compares them for equality.  Timestamp   *)
(* fields (created_at, updated_at) and the identity fields of the user     *)
(* document (uid, email, display_name) are never read by the quota logic   *)
(* and are left out of the documents.                                      *)
(*                                                                         *)
(* The handler is a coroutine: the code between two awaits runs            *)
(* atomically, every awaited executor call is one step of its own.         *)
(* Every call to the store may raise (store unreachable); the generation   *)
(* call model.generate_content is an external service that returns a text  *)
(* or raises.                                                              *)
(***************************************************************************)
EXTENDS Integers, FiniteSets, Sequences, TLC

\* ---------------------------------------------------------------- bounds
NumReq == 2          \* request instances handled by the server
MaxDay == 1          \* the clock runs over days 0..MaxDay
MaxLimit == 1        \* per-plan daily limits 1..MaxLimit stored at start
NumCalls == 3        \* concurrent calls of update_prompt_usage_stats
MaxCount == 2        \* counts 0..MaxCount of the counters given to the rollover
MaxGap == 3          \* dates 0..MaxGap given to the rollover

\* ------------------------------------------------------ program constants
DefaultDailyLimit == 100      \* user_data.get('daily_limit', 100)
RegisterDailyLimit == 100     \* 'daily_limit': 100 in register
HTTP_OK == 200
HTTP_BAD_REQUEST == 400
HTTP_TOO_MANY == 429
HTTP_SERVER_ERROR == 500

Users == {"u1", "u2"}
FirstUser == "u1"    \* has an account at start; the others register later
Reqs == 1..NumReq
None == "None"

VARIABLES
    firebase_initialized,  \* module global set at import
    users,                 \* collection 'users': uid -> document
    prompts,               \* collection 'prompts': the persisted events
    accounts,              \* uids known to the identity provider
    today,                 \* datetime.now().date()
    req,                   \* per request: position, locals, response
    log,                   \* lines written by print / app.logger.error
    users0,                \* the 'users' collection at start (never changes)
    arg,                   \* the arguments of a helper function called on its own
    result                 \* what that call returned

vars == <<firebase_initialized, users, prompts, accounts, today, req, log, users0, arg, result>>

\* ------------------------------------------------------------ dict helpers
EmptyDict == [k \in {} |-> 0]

\* dict.get(k, default)
Get(d, k, default) == IF k \in DOMAIN d THEN d[k] ELSE default

\* d1 updated with the entries of d2 (dict assignment / set(..., merge=True))
Merge(old, new) ==
    [f \in (DOMAIN old) \cup (DOMAIN new) |->
        IF f \in DOMAIN new THEN new[f] ELSE old[f]]

\* DocumentReference.get(): a snapshot with .exists and .to_dict()
Snapshot(coll, id) ==
    IF id \in DOMAIN coll
    THEN [exists |-> TRUE, data |-> coll[id]]
    ELSE [exists |-> FALSE, data |-> EmptyDict]

\* DocumentReference.set(data): replaces the document
SetDoc(coll, id, data) ==
    [i \in (DOMAIN coll) \cup {id} |-> IF i = id THEN data ELSE coll[i]]

\* DocumentReference.set(data, merge=True): merges the given fields
SetMerge(coll, id, data) ==
    SetDoc(coll, id, IF id \in DOMAIN coll THEN Merge(coll[id], data) ELSE data)

\* ------------------------------------------------------------ credentials
\* An Authorization header: bearer says whether it starts with 'Bearer '.
\* Tokens exist for the accounts of the identity provider; "bad" is any
\* token that fails verification.
NoHeader == [bearer |-> FALSE, token |-> ""]
Credentials ==
    {NoHeader} \cup [bearer : {TRUE}, token : accounts \cup {"bad"}]

\* auth.verify_id_token: the uid of a valid token, None when it raises
VerifyIdToken(token) == IF token \in accounts THEN token ELSE None

\* optional_auth: request.user
OptionalAuth(cred) ==
    IF cred.bearer THEN VerifyIdToken(cred.token) ELSE None

\* ------------------------------------------------------------- quota gate
\* variant: the comparison is strict
QuotaDenied_strict(user_doc) ==
    /\ user_doc.exists
    /\ Get(user_doc.data, "prompts_today", 0)
          > Get(user_doc.data, "daily_limit", DefaultDailyLimit)

\* variant: the stored limit is not read, the default applies to everyone
QuotaDenied_defaultLimit(user_doc) ==
    /\ user_doc.exists
    /\ Get(user_doc.data, "prompts_today", 0) >= DefaultDailyLimit

\* generate, lines 332-337: the request is refused
QuotaDenied(user_doc) ==
    /\ user_doc.exists
    /\ Get(user_doc.data, "prompts_today", 0)
          >= Get(user_doc.data, "daily_limit", DefaultDailyLimit)

\* the body of the 429 response
DenialBody(user_doc) ==
    [error |-> "Daily limit reached",
     limit |-> Get(user_doc.data, "daily_limit", DefaultDailyLimit),
     used  |-> Get(user_doc.data, "prompts_today", 0)]

\* --------------------------------------------- update_prompt_usage_stats
\* variant: the statistics start from zero whatever the store holds
InitialStats_fresh(doc, day) ==
    [total_prompts |-> 0, prompts_today |-> 0, last_reset_date |-> day]

\* lines 148-153: the dict the update starts from
InitialStats(doc, day) ==
    IF doc.exists THEN doc.data
    ELSE [total_prompts |-> 0, prompts_today |-> 0, last_reset_date |-> day]

\* variant: the count is reset only on the day after the stored date
ResetIfNewDay_nextDayOnly(d, day) ==
    IF "last_reset_date" \in DOMAIN d /\ d["last_reset_date"] + 1 # day
    THEN d
    ELSE Merge(d, [prompts_today |-> 0, last_reset_date |-> day])

\* lines 155-159: reset the daily count on a new day
ResetIfNewDay(d, day) ==
    IF "last_reset_date" \in DOMAIN d /\ d["last_reset_date"] = day
    THEN d
    ELSE Merge(d, [prompts_today |-> 0, last_reset_date |-> day])

\* variant: only the lifetime count is raised
CountPrompt_totalOnly(d) ==
    Merge(d, [total_prompts |-> Get(d, "total_prompts", 0) + 1])

\* lines 161-163: count the prompt
CountPrompt(d) ==
    Merge(d, [total_prompts |-> Get(d, "total_prompts", 0) + 1,
              prompts_today |-> Get(d, "prompts_today", 0) + 1])

\* lines 148-164 as a whole
UpdatedStats(doc, day) == CountPrompt(ResetIfNewDay(InitialStats(doc, day), day))

\* ------------------------------------------------------------- documents
\* variant: a new account starts with no allowance
RegisterDoc_noAllowance == [plan |-> "free", daily_limit |-> 0, total_prompts |-> 0]

\* register, lines 198-206
RegisterDoc == [plan |-> "free", daily_limit |-> RegisterDailyLimit, total_prompts |-> 0]

\* Documents the store may hold at start for a user with an account:
\* a plan document with a small limit and no usage today, and a document
\* created by update_prompt_usage_stats for a user who has used 99 prompts.
InitDocs ==
    { [plan |-> "free", daily_limit |-> l, total_prompts |-> 0,
       prompts_today |-> 0, last_reset_date |-> 0] : l \in 1..MaxLimit }
    \cup
    { [total_prompts |-> DefaultDailyLimit - 1,
       prompts_today |-> DefaultDailyLimit - 1, last_reset_date |-> 0] }

\* ------------------------------------------------------ fallback template
PromptTypes == {"text", "image", "video", "code", "audio", "data"}

\* str.upper() on the prompt types
Upper(t) ==
    [text |-> "TEXT", image |-> "IMAGE", video |-> "VIDEO",
     code |-> "CODE", audio |-> "AUDIO", data |-> "DATA"][t]

\* generate_fallback_prompt, lines 785-790: the templates, by their first line
FallbackTemplates ==
    [text  |-> "OBJECTIVE: Clearly define the primary goal",
     image |-> "SUBJECT: Main focus of the image",
     video |-> "SCENE: Main visual sequence",
     code  |-> "FUNCTION: What the code should do"]

\* variant: templates[prompt_type] without the default
GenerateFallbackPrompt_noDefault(user_input, prompt_type) ==
    [base |-> <<"Professional ", Upper(prompt_type), " Prompt for: ", user_input>>,
     template |-> IF prompt_type \in DOMAIN FallbackTemplates
                  THEN FallbackTemplates[prompt_type] ELSE "KeyError"]

\* generate_fallback_prompt, lines 781-792: the pieces of the string built
GenerateFallbackPrompt(user_input, prompt_type) ==
    [base |-> <<"Professional ", Upper(prompt_type), " Prompt for: ", user_input>>,
     template |-> IF prompt_type \in DOMAIN FallbackTemplates
                  THEN FallbackTemplates[prompt_type] ELSE FallbackTemplates["text"]]

\* The JSON bodies the requests of the model carry (lines 313-315): a type
\* with a template of its own and a type without one.  The model draws the
\* body where the handler first uses it.
RequestData ==
    { [prompt |-> "a cat", type |-> "image"],
      [prompt |-> "a dog", type |-> "audio"] }

\* no helper function is being called on its own
NoCall == [fn |-> "none"]

\* ---------------------------------------------------------------- requests
NoSnapshot == [exists |-> FALSE, data |-> EmptyDict]

IdleReq ==
    [pc |-> "idle", cred |-> NoHeader, user |-> None, user_input |-> "", prompt_type |-> "",
     status |-> 0, body |-> EmptyDict,
     doc |-> NoSnapshot, current_data |-> EmptyDict,
     gen |-> "none", gate_reads |-> 0, consumes |-> 0, writes |-> 0, events |-> 0,
     stored |-> EmptyDict]

InFlight(r) == req[r].pc \notin {"idle", "done"}

\* The handler returns: its locals are gone, the response stays.
Respond(q, status, body) ==
    [q EXCEPT !.pc = "done", !.status = status, !.body = body,
              !.doc = NoSnapshot, !.current_data = EmptyDict]

Init ==
    /\ firebase_initialized \in BOOLEAN
    /\ accounts = {FirstUser}
    /\ \E withDoc \in SUBSET accounts :
          users \in [withDoc -> InitDocs]
    /\ users0 = users
    /\ prompts = {}
    /\ today = 0
    /\ req = [r \in Reqs |-> IdleReq]
    /\ log = {}
    /\ arg = NoCall
    /\ result = NoCall

\* The calendar day changes.
Tick ==
    /\ today < MaxDay
    /\ today' = today + 1
    /\ UNCHANGED <<firebase_initialized, users, prompts, accounts, req, log, users0, arg, result>>

\* register, lines 175-230: a new account and its user document.
Register(u) ==
    /\ u \notin accounts
    /\ accounts' = accounts \cup {u}
    /\ users' = IF firebase_initialized THEN SetDoc(users, u, RegisterDoc) ELSE users
    /\ UNCHANGED <<firebase_initialized, prompts, today, req, log, users0, arg, result>>

\* variant: the gate does not look at request.user
NeedsQuotaCheck_anyCaller(user) == firebase_initialized

\* generate, lines 322 and 326: the user document is read for the gate
NeedsQuotaCheck(user) == user # None /\ firebase_initialized

\* variant: the refusal is built but the handler does not return
GateOutcome_noReturn(q, user_doc) ==
    IF QuotaDenied(user_doc)
    THEN [q EXCEPT !.pc = "generate", !.status = HTTP_TOO_MANY,
                   !.body = DenialBody(user_doc)]
    ELSE [q EXCEPT !.pc = "generate"]

\* generate, lines 332-342: refuse with 429, or go on to the generation
GateOutcome(q, user_doc) ==
    IF QuotaDenied(user_doc)
    THEN Respond(q, HTTP_TOO_MANY, DenialBody(user_doc))
    ELSE [q EXCEPT !.pc = "generate"]

\* optional_auth and generate, lines 56-72 and 313-322: the request arrives.
\* An empty prompt is answered 400 whoever sent it; the credential plays no
\* part in that answer and is not kept with it.
Start(r) ==
    /\ req[r].pc = "idle"
    /\ \E cred \in Credentials, empty \in BOOLEAN :
          LET user == OptionalAuth(cred)
              q == [req[r] EXCEPT !.cred = cred, !.user = user]
          IN req' = [req EXCEPT ![r] =
                IF empty
                THEN Respond(req[r], HTTP_BAD_REQUEST, [error |-> "Input is empty"])
                ELSE IF NeedsQuotaCheck(user)
                THEN [q EXCEPT !.pc = "check"]
                ELSE [q EXCEPT !.pc = "generate"]]
    /\ UNCHANGED <<firebase_initialized, users, prompts, accounts, today, log, users0, arg, result>>

\* variant: a check that finds no document writes a zero-valued one
Check_writeOnRead(r) ==
    /\ req[r].pc = "check"
    /\ \E ok \in BOOLEAN :
          IF ~ok
          THEN /\ req' = [req EXCEPT ![r] =
                      Respond(req[r], HTTP_SERVER_ERROR, [error |-> "Internal Server Error"])]
               /\ users' = users
          ELSE LET user_doc == Snapshot(users, req[r].user)
                   q == [req[r] EXCEPT !.gate_reads = @ + 1]
               IN /\ req' = [req EXCEPT ![r] = GateOutcome(q, user_doc)]
                  /\ users' = IF user_doc.exists THEN users
                              ELSE SetDoc(users, req[r].user,
                                          InitialStats(user_doc, today))
    /\ UNCHANGED <<firebase_initialized, prompts, accounts, today, log, users0, arg, result>>

\* generate, lines 326-342: read the user document and apply the gate.
\* The read is outside the handler's try block: when it raises, the
\* framework answers 500.
Check(r) ==
    /\ req[r].pc = "check"
    /\ \E ok \in BOOLEAN :
          IF ~ok
          THEN req' = [req EXCEPT ![r] =
                   Respond(req[r], HTTP_SERVER_ERROR, [error |-> "Internal Server Error"])]
          ELSE LET user_doc == Snapshot(users, req[r].user)
                   q == [req[r] EXCEPT !.gate_reads = @ + 1]
               IN req' = [req EXCEPT ![r] = GateOutcome(q, user_doc)]
    /\ UNCHANGED <<firebase_initialized, users, prompts, accounts, today, log, users0, arg, result>>

\* variant: the fallback is answered as a success
FallbackResponse_ok(q) ==
    Respond(q, HTTP_OK,
            [error |-> "generation failed",
             fallback_prompt |-> GenerateFallbackPrompt(q.user_input, q.prompt_type)])

\* generate, lines 410-415: the answer to a failed generation
FallbackResponse(q) ==
    Respond(q, HTTP_SERVER_ERROR,
            [error |-> "generation failed",
             fallback_prompt |-> GenerateFallbackPrompt(q.user_input, q.prompt_type)])

\* variant: the usage is counted when the generation failed as well
Generate_countsFailure(r) ==
    /\ req[r].pc = "generate"
    /\ \E ok \in BOOLEAN :
          LET q == [req[r] EXCEPT !.gen = IF ok THEN "ok" ELSE "fail"]
          IN /\ log' = IF ok THEN log ELSE log \cup {<<r, "Error generating prompt">>}
             /\ req' = [req EXCEPT ![r] =
                   IF q.user = None \/ ~firebase_initialized
                   THEN Respond(q, IF ok THEN HTTP_OK ELSE HTTP_SERVER_ERROR,
                                [status |-> "success"])
                   ELSE [q EXCEPT !.pc = "save"]]
    /\ UNCHANGED <<firebase_initialized, users, prompts, accounts, today, users0, arg, result>>

\* variant: the statistics are updated first, the event is not saved before
Generate_consumeFirst(r) ==
    /\ req[r].pc = "generate"
    /\ \E ok \in BOOLEAN :
          IF ~ok
          THEN /\ \E data \in RequestData :
                     req' = [req EXCEPT ![r] =
                        FallbackResponse([req[r] EXCEPT !.gen = "fail",
                                                        !.user_input = data.prompt,
                                                        !.prompt_type = data.type])]
               /\ log' = log \cup {<<r, "Error generating prompt">>}
          ELSE /\ log' = log
               /\ LET q == [req[r] EXCEPT !.gen = "ok"]
                  IN req' = [req EXCEPT ![r] =
                        IF q.user = None
                        THEN Respond(q, HTTP_OK, [status |-> "success", authenticated |-> FALSE])
                        ELSE IF ~firebase_initialized
                        THEN Respond([q EXCEPT !.consumes = @ + 1], HTTP_OK,
                                     [status |-> "success", authenticated |-> TRUE])
                        ELSE [q EXCEPT !.pc = "stats_read", !.consumes = @ + 1]]
    /\ UNCHANGED <<firebase_initialized, users, prompts, accounts, today, users0, arg, result>>

\* generate, lines 354-396 and 410-415: the generation call, then scoring.
\* A failure is logged and answered with the fallback template and 500.
\* On success an authenticated request goes on to save_prompt_to_firestore
\* and update_prompt_usage_stats, which both return at once when the store
\* was never initialised (lines 77-78 and 136-137).
Generate(r) ==
    /\ req[r].pc = "generate"
    /\ \E ok \in BOOLEAN :
          IF ~ok
          THEN /\ \E data \in RequestData :
                     req' = [req EXCEPT ![r] =
                        FallbackResponse([req[r] EXCEPT !.gen = "fail",
                                                        !.user_input = data.prompt,
                                                        !.prompt_type = data.type])]
               /\ log' = log \cup {<<r, "Error generating prompt">>}
          ELSE /\ log' = log
               /\ LET q == [req[r] EXCEPT !.gen = "ok"]
                  IN req' = [req EXCEPT ![r] =
                        IF q.user = None
                        THEN Respond(q, HTTP_OK, [status |-> "success", authenticated |-> FALSE])
                        ELSE IF ~firebase_initialized
                        THEN Respond([q EXCEPT !.consumes = @ + 1], HTTP_OK,
                                     [status |-> "success", authenticated |-> TRUE])
                        ELSE [q EXCEPT !.pc = "save"]]
    /\ UNCHANGED <<firebase_initialized, users, prompts, accounts, today, users0, arg, result>>

\* variant: a failed save reaches the handler's except clause
SavePrompt_raises(r) ==
    /\ req[r].pc = "save"
    /\ \E ok \in BOOLEAN :
          IF ok
          THEN /\ prompts' = prompts \cup {[id |-> r, user_id |-> req[r].user]}
               /\ req' = [req EXCEPT ![r].pc = "stats_read", ![r].events = @ + 1,
                                     ![r].consumes = @ + 1]
               /\ log' = log
          ELSE /\ prompts' = prompts
               /\ req' = [req EXCEPT ![r] =
                     Respond(req[r], HTTP_SERVER_ERROR, [error |-> "save failed"])]
               /\ log' = log \cup {<<r, "Error generating prompt">>}
    /\ UNCHANGED <<firebase_initialized, users, accounts, today, users0, arg, result>>

\* save_prompt_to_firestore, lines 80-102: persist the generation event;
\* a failure is printed and swallowed.  update_prompt_usage_stats is
\* entered next (line 396).
SavePrompt(r) ==
    /\ req[r].pc = "save"
    /\ \E ok \in BOOLEAN :
          IF ok
          THEN /\ prompts' = prompts \cup {[id |-> r, user_id |-> req[r].user]}
               /\ req' = [req EXCEPT ![r].pc = "stats_read", ![r].events = @ + 1,
                                     ![r].consumes = @ + 1]
               /\ log' = log
          ELSE /\ prompts' = prompts
               /\ req' = [req EXCEPT ![r].pc = "stats_read", ![r].consumes = @ + 1]
               /\ log' = log \cup {<<r, "Error saving to Firestore">>}
    /\ UNCHANGED <<firebase_initialized, users, accounts, today, users0, arg, result>>

\* the response of a successful authenticated request, lines 398-408
SuccessResponse(q) == Respond(q, HTTP_OK, [status |-> "success", authenticated |-> TRUE])

\* update_prompt_usage_stats, lines 140-146: read the user document.
StatsRead(r) ==
    /\ req[r].pc = "stats_read"
    /\ \E ok \in BOOLEAN :
          IF ok
          THEN /\ req' = [req EXCEPT ![r].pc = "stats_compute",
                                     ![r].doc = Snapshot(users, req[r].user)]
               /\ log' = log
          ELSE /\ req' = [req EXCEPT ![r] = SuccessResponse(req[r])]
               /\ log' = log \cup {<<r, "Error updating stats">>}
    /\ UNCHANGED <<firebase_initialized, users, prompts, accounts, today, users0, arg, result>>

\* update_prompt_usage_stats, lines 148-164: compute the new statistics
\* with the date of the moment the coroutine resumes.
StatsCompute(r) ==
    /\ req[r].pc = "stats_compute"
    /\ req' = [req EXCEPT ![r].pc = "stats_write", ![r].doc = NoSnapshot,
                          ![r].current_data = UpdatedStats(req[r].doc, today)]
    /\ UNCHANGED <<firebase_initialized, users, prompts, accounts, today, log, users0, arg, result>>

\* the daily count and its date in the statistics a request has written
DailyCount(d) ==
    [prompts_today |-> d["prompts_today"], last_reset_date |-> d["last_reset_date"]]

\* variant: a failed write reaches the handler's except clause
StatsWrite_propagates(r) ==
    /\ req[r].pc = "stats_write"
    /\ \E ok \in BOOLEAN :
          IF ok
          THEN /\ users' = SetMerge(users, req[r].user, req[r].current_data)
               /\ req' = [req EXCEPT ![r] = SuccessResponse([req[r] EXCEPT !.writes = @ + 1,
                                                  !.stored = DailyCount(req[r].current_data)])]
               /\ log' = log
          ELSE /\ users' = users
               /\ req' = [req EXCEPT ![r] =
                     Respond(req[r], HTTP_SERVER_ERROR,
                             [error |-> "write failed", fallback_prompt |-> "fallback"])]
               /\ log' = log \cup {<<r, "Error generating prompt">>}
    /\ UNCHANGED <<firebase_initialized, prompts, accounts, today, users0, arg, result>>

\* update_prompt_usage_stats, lines 166-171: write the statistics with
\* merge=True; a failure is printed and swallowed.  Then generate responds.
StatsWrite(r) ==
    /\ req[r].pc = "stats_write"
    /\ \E ok \in BOOLEAN :
          IF ok
          THEN /\ users' = SetMerge(users, req[r].user, req[r].current_data)
               /\ req' = [req EXCEPT ![r] = SuccessResponse([req[r] EXCEPT !.writes = @ + 1,
                                                  !.stored = DailyCount(req[r].current_data)])]
               /\ log' = log
          ELSE /\ users' = users
               /\ req' = [req EXCEPT ![r] = SuccessResponse(req[r])]
               /\ log' = log \cup {<<r, "Error updating stats">>}
    /\ UNCHANGED <<firebase_initialized, prompts, accounts, today, users0, arg, result>>

Next ==
    \/ Tick
    \/ \E u \in Users : Register(u)
    \/ \E r \in Reqs : Start(r)
    \/ \E r \in Reqs : Check(r)
    \/ \E r \in Reqs : Generate(r)
    \/ \E r \in Reqs : SavePrompt(r)
    \/ \E r \in Reqs : StatsRead(r)
    \/ \E r \in Reqs : StatsCompute(r)
    \/ \E r \in Reqs : StatsWrite(r)

Spec == Init /\ [][Next]_vars
\* Requests of one user are handled one after another: a request arrives
\* only when no other request is being handled.
StartSeq(r) ==
    /\ \A r2 \in Reqs : ~InFlight(r2)
    /\ Start(r)

NextSeq ==
    \/ Tick
    \/ \E u \in Users : Register(u)
    \/ \E r \in Reqs : StartSeq(r)
    \/ \E r \in Reqs : Check(r)
    \/ \E r \in Reqs : Generate(r)
    \/ \E r \in Reqs : SavePrompt(r)
    \/ \E r \in Reqs : StatsRead(r)
    \/ \E r \in Reqs : StatsCompute(r)
    \/ \E r \in Reqs : StatsWrite(r)

SpecSeq == Init /\ [][NextSeq]_vars

\* ------------------------------------------------------------ properties
\* the stored counter of user u, as the store holds it now
StoredUsed(u) == IF u \in DOMAIN users THEN Get(users[u], "prompts_today", 0) ELSE 0
StoredLimit(u) ==
    IF u \in DOMAIN users /\ "daily_limit" \in DOMAIN users[u]
    THEN users[u]["daily_limit"] ELSE 100

\* this step is the quota check of request r reading the store
CheckRead(r) ==
    /\ req[r].pc = "check"
    /\ req'[r].gate_reads = req[r].gate_reads + 1

\* this step is the write of the consume of request r
ConsumeWrite(r) ==
    /\ req[r].pc = "stats_write"
    /\ req'[r].writes = req[r].writes + 1

\* the requests of user u whose consume has reached the store operations
Consumers(u) ==
    {r \in Reqs : req[r].user = u /\ req[r].consumes > 0 /\ firebase_initialized}

InitialCount(u) == IF u \in DOMAIN users0 THEN Get(users0[u], "prompts_today", 0) ELSE 0

\* C1: no lost updates -- when N >= 1 consumes of one user have all run
\* within one day (the day of the start) and all have written successfully,
\* the stored prompts_today is the initial prompts_today + N.
C1_NoLostUpdates ==
    \A u \in Users :
        ( /\ today = 0
          /\ Consumers(u) # {}
          /\ \A r \in Consumers(u) : req[r].pc = "done" /\ req[r].writes = 1 )
        => StoredUsed(u) = InitialCount(u) + Cardinality(Consumers(u))

\* C2: rollover before the gate -- a check made today for a user whose
\* stored last_reset_date is an earlier day allows the request, whatever
\* the stored prompts_today.
C2_RolloverBeforeGate ==
    [][\A r \in Reqs :
          ( /\ CheckRead(r)
            /\ req[r].user \in DOMAIN users
            /\ "last_reset_date" \in DOMAIN users[req[r].user]
            /\ users[req[r].user]["last_reset_date"] < today )
          => req'[r].pc = "generate"]_vars

\* C3: the check allows exactly when used < limit and refuses exactly when
\* used >= limit, with limit the stored daily_limit (100 when absent) and
\* used the stored prompts_today; the refusal is a 429 response carrying
\* exactly these two values.
C3_GateDecision ==
    [][\A r \in Reqs :
          CheckRead(r) =>
             LET used == StoredUsed(req[r].user)
                 limit == StoredLimit(req[r].user)
             IN /\ used < limit =>
                      req'[r].pc = "generate" /\ req'[r].status = 0
                /\ used >= limit =>
                      /\ req'[r].pc = "done"
                      /\ req'[r].status = 429
                      /\ req'[r].body.limit = limit
                      /\ req'[r].body.used = used]_vars

\* a request was refused under the default limit
C3_Witness ==
    \E r \in Reqs :
        /\ req[r].status = 429
        /\ req[r].body.limit = 100
        /\ req[r].body.used >= 100

\* C4: a refused request never calls the generation service, never calls
\* update_prompt_usage_stats, never writes a counter and persists no event.
C4_DeniedHasNoEffect ==
    \A r \in Reqs :
        req[r].status = 429 =>
            /\ req[r].pc = "done"
            /\ req[r].gen = "none"
            /\ req[r].consumes = 0
            /\ req[r].writes = 0
            /\ req[r].events = 0
            /\ \A e \in prompts : e.id # r

C4_Witness ==
    \E r \in Reqs : req[r].status = 429 /\ req[r].pc = "done" /\ req[r].gate_reads = 1

\* C5: a request whose generation call failed has written no counter and
\* persisted no event, authenticated or not.
C5_FailedGenerationHasNoEffect ==
    \A r \in Reqs :
        req[r].gen = "fail" =>
            /\ req[r].pc = "done"
            /\ req[r].consumes = 0
            /\ req[r].writes = 0
            /\ req[r].events = 0
            /\ \A e \in prompts : e.id # r

\* an authenticated and an unauthenticated request have both failed
C5_Witness ==
    \E r1, r2 \in Reqs :
        /\ req[r1].gen = "fail" /\ req[r1].user # None /\ firebase_initialized
        /\ req[r2].gen = "fail" /\ req[r2].user = None

\* the credential of the request passes verification
ValidCredential(cred) == cred.bearer /\ cred.token \in Users

\* C6: a request without a credential, or with one that fails verification,
\* is never refused for quota, never reads a counter for the gate, never
\* calls update_prompt_usage_stats or writes a counter, persists no event,
\* and otherwise goes through the generation and answers like any request.
C6_GuestsAreUnmetered ==
    \A r \in Reqs :
        (req[r].pc # "idle" /\ ~ValidCredential(req[r].cred)) =>
            /\ req[r].user = None
            /\ req[r].status # 429
            /\ req[r].gate_reads = 0
            /\ req[r].consumes = 0
            /\ req[r].writes = 0
            /\ req[r].events = 0
            /\ \A e \in prompts : e.id # r
            /\ req[r].pc \in {"generate", "done"}
            /\ (req[r].pc = "done" /\ req[r].status # 400) =>
                   /\ req[r].gen # "none"
                   /\ req[r].status = 200 <=> req[r].gen = "ok"

\* a guest was served while a stored counter stood at its limit
C6_Witness ==
    \E r \in Reqs, u \in DOMAIN users :
        /\ req[r].cred.token = "bad"
        /\ req[r].status = 200
        /\ firebase_initialized
        /\ StoredUsed(u) >= StoredLimit(u)

\* C7: fail-open check -- an authenticated request whose check could not
\* read the counter (store never initialised, or the read failed) goes on
\* to the generation call; it does not end without one.
C7_FailOpen ==
    \A r \in Reqs :
        ( /\ req[r].user # None
          /\ req[r].pc = "done"
          /\ req[r].status # 400
          /\ req[r].gate_reads = 0 )
        => req[r].gen # "none"

\* the precondition of the sequential scenario for user u: a stored limit,
\* no usage at the start, still the day of the start, and every request of
\* u handled so far was either refused or served and counted
SeqPre(u) ==
    /\ u \in DOMAIN users0
    /\ "daily_limit" \in DOMAIN users0[u]
    /\ users0[u]["prompts_today"] = 0
    /\ today = 0
    /\ \A r \in Reqs :
          (req[r].user = u /\ req[r].pc = "done") =>
              \/ req[r].status = 429
              \/ req[r].status = 200 /\ req[r].writes = 1

\* the requests of u served and counted so far
Served(u) == Cardinality({r \in Reqs : req[r].user = u /\ req[r].writes = 1})

\* C8: sequential exhaustion -- with requests handled one after another on
\* one day, a user with limit L and no usage is allowed while fewer than L
\* requests were served, each served request raises prompts_today by
\* exactly 1, and the check after L served requests is refused with
\* limit = L and used = L.
C8_SequentialExhaustion ==
    [][\A r \in Reqs :
          LET u == req[r].user
          IN /\ (CheckRead(r) /\ SeqPre(u)) =>
                   LET L == users0[u]["daily_limit"]
                   IN /\ Served(u) < L => req'[r].pc = "generate"
                      /\ Served(u) >= L =>
                            /\ Served(u) = L
                            /\ req'[r].status = 429
                            /\ req'[r].body.limit = L
                            /\ req'[r].body.used = L
             /\ (ConsumeWrite(r) /\ SeqPre(u)) =>
                   /\ StoredUsed(u) = Served(u)
                   /\ users'[u]["prompts_today"] = StoredUsed(u) + 1]_vars

\* L requests were served and the next one was refused with used = L
C8_Witness ==
    \E u \in Users :
        /\ SeqPre(u)
        /\ Served(u) = users0[u]["daily_limit"]
        /\ \E r \in Reqs :
              /\ req[r].user = u
              /\ req[r].status = 429
              /\ req[r].body.limit = Served(u)
              /\ req[r].body.used = Served(u)

\* C9: the check of a user whose document is the one register wrote, or
\* who has no document at all, is allowed, with no usage counted (used = 0).
C9_FreshUserAllowed ==
    [][\A r \in Reqs :
          ( /\ CheckRead(r)
            /\ \/ req[r].user \notin DOMAIN users
               \/ (req[r].user \notin DOMAIN users0
                      /\ users[req[r].user]["total_prompts"] = 0) )
          => /\ StoredUsed(req[r].user) = 0
             /\ req'[r].pc = "generate"
             /\ req'[r].status = 0]_vars

\* a registered user and a user without a document have both passed the check
C9_Witness ==
    \E r1, r2 \in Reqs :
        /\ req[r1].user \in DOMAIN users /\ req[r1].user \notin DOMAIN users0
        /\ users[req[r1].user]["total_prompts"] = 0
        /\ req[r1].gate_reads = 1 /\ req[r1].pc = "generate"
        /\ req[r2].user # None /\ req[r2].user \notin DOMAIN users
        /\ req[r2].gate_reads = 1 /\ req[r2].pc = "generate"

\* the consume of request r ran against the store and did not write
ConsumeFailed(r) ==
    /\ firebase_initialized
    /\ req[r].pc = "done"
    /\ req[r].consumes = 1
    /\ req[r].writes = 0

\* C10: once the generation has succeeded, the request answers with the
\* success response, also when the read or the write of the consume failed;
\* that failure is in the log.
C10_AccountingFailureIsSwallowed ==
    \A r \in Reqs :
        (req[r].gen = "ok" /\ req[r].pc = "done") =>
            /\ req[r].status = 200
            /\ req[r].body.status = "success"
            /\ ConsumeFailed(r) => <<r, "Error updating stats">> \in log

C10_Witness ==
    \E r \in Reqs :
        /\ ConsumeFailed(r)
        /\ req[r].gen = "ok"
        /\ req[r].status = 200
        /\ <<r, "Error updating stats">> \in log
\* the answer of request r carries a fallback template and an error indicator
CarriesFallback(r) ==
    /\ "error" \in DOMAIN req[r].body
    /\ "fallback_prompt" \in DOMAIN req[r].body

\* C11 as claimed: a request whose generation failed answers with a
\* success-shaped outcome (no error status) that carries the fallback
\* template and an error indicator.
C11_FallbackIsSuccessShaped ==
    \A r \in Reqs :
        req[r].gen = "fail" =>
            /\ req[r].status < 400
            /\ CarriesFallback(r)

\* C11 as amended: a request whose generation failed answers with status
\* 500, and the body carries an error indicator and the fallback template;
\* the template names the prompt type in upper case and the user input,
\* and is the template of the type for text, image, video and code and the
\* text template for every other type.
C11_FallbackWithServerError ==
    \A r \in Reqs :
        req[r].gen = "fail" =>
            /\ req[r].pc = "done"
            /\ req[r].status = 500
            /\ CarriesFallback(r)
            /\ req[r].body.fallback_prompt.base[2] = Upper(req[r].prompt_type)
            /\ req[r].body.fallback_prompt.base[4] = req[r].user_input
            /\ req[r].prompt_type = "image" =>
                   req[r].body.fallback_prompt.template = "SUBJECT: Main focus of the image"
            /\ req[r].prompt_type = "audio" =>
                   req[r].body.fallback_prompt.template
                      = "OBJECTIVE: Clearly define the primary goal"

\* failed generations were answered for a type with a template of its own
\* and for a type without one
C11_Witness ==
    \E r1, r2 \in Reqs :
        /\ req[r1].gen = "fail" /\ req[r1].prompt_type = "image" /\ req[r1].status = 500
        /\ req[r2].gen = "fail" /\ req[r2].prompt_type = "audio" /\ req[r2].status = 500
        /\ req[r1].user_input # req[r2].user_input
\* the save of the event of request r has been carried out, with or
\* without success
SaveAttempted(r) ==
    \/ req[r].events = 1
    \/ <<r, "Error saving to Firestore">> \in log

\* C12 as claimed: the event of a request is never persisted before the
\* counter increment of the same request has been performed.
C12_ConsumeBeforePersist ==
    \A r \in Reqs : req[r].events > 0 => req[r].writes > 0

\* C12 as amended: an authenticated request whose generation succeeds
\* persists the event first, then updates the usage statistics, then
\* responds -- the update is never entered, and the counter never written,
\* before the save of the event of the same request has been carried out,
\* and the request has not responded while the update is running.
C12_PersistBeforeConsume ==
    \A r \in Reqs :
        /\ (firebase_initialized /\ req[r].consumes > 0) =>
               req[r].gen = "ok" /\ SaveAttempted(r)
        /\ req[r].writes > 0 => req[r].consumes > 0 /\ firebase_initialized
        /\ req[r].pc \in {"save", "stats_read", "stats_compute", "stats_write"} =>
               req[r].gen = "ok" /\ req[r].status = 0
        /\ req[r].pc = "save" => req[r].consumes = 0 /\ req[r].events = 0
        /\ (req[r].status = 200 /\ req[r].user # None) => req[r].consumes = 1

\* a request has persisted its event, written the counter and responded
C12_Witness ==
    \E r \in Reqs :
        /\ req[r].events = 1
        /\ req[r].writes = 1
        /\ req[r].status = 200
\* ------------------------------------------- helper functions on their own
\* The variables of the request handling while a helper function is
\* called on its own: nothing is stored and no request is being handled.
NoRequests ==
    /\ firebase_initialized = TRUE
    /\ users = EmptyDict
    /\ users0 = EmptyDict
    /\ prompts = {}
    /\ accounts = {}
    /\ today = 0
    /\ req = [r \in Reqs |-> IdleReq]
    /\ log = {}

handling == <<firebase_initialized, users, prompts, accounts, today, req, log, users0>>

\* The counters the reset rule of lines 155-159 is applied to: documents
\* with a count and a date, and the document register wrote (no date).
RolloverCounters ==
    { [plan |-> "free", daily_limit |-> RegisterDailyLimit, total_prompts |-> c,
       prompts_today |-> c, last_reset_date |-> d] : c \in 0..MaxCount, d \in 0..MaxGap }
    \cup {RegisterDoc}

InitRollover ==
    /\ NoRequests
    /\ arg \in [fn : {"rollover"}, counter : RolloverCounters, day : 0..MaxGap]
    /\ result = NoCall

\* lines 155-159 applied to the counter with the date arg.day
ApplyRollover ==
    /\ arg.fn = "rollover"
    /\ result = NoCall
    /\ result' = [fn |-> "rollover", times |-> 1, first |-> arg.counter,
                  counter |-> ResetIfNewDay(arg.counter, arg.day)]
    /\ UNCHANGED <<handling, arg>>

\* lines 155-159 applied once more to the outcome, with the same date
ApplyRolloverAgain ==
    /\ arg.fn = "rollover"
    /\ result.fn = "rollover"
    /\ result.times = 1
    /\ result' = [fn |-> "rollover", times |-> 2, first |-> result.counter,
                  counter |-> ResetIfNewDay(result.counter, arg.day)]
    /\ UNCHANGED <<handling, arg>>

NextRollover == ApplyRollover \/ ApplyRolloverAgain

SpecRollover == InitRollover /\ [][NextRollover]_vars

\* C13: the reset rule applied with the date the counter holds leaves the
\* counter as it is, so a second application with the same date changes
\* nothing; applied with any later date it sets prompts_today to 0 and
\* last_reset_date to that date, whatever the number of days between, and
\* leaves the other fields alone.
C13_RolloverIdempotent ==
    result.fn = "rollover" =>
        /\ result.times = 2 => result.counter = result.first
        /\ (result.times = 1 /\ "last_reset_date" \in DOMAIN arg.counter) =>
              LET c == arg.counter
                  out == result.counter
              IN /\ c["last_reset_date"] = arg.day => out = c
                 /\ c["last_reset_date"] < arg.day =>
                       /\ out["prompts_today"] = 0
                       /\ out["last_reset_date"] = arg.day
                       /\ DOMAIN out = DOMAIN c
                       /\ \A f \in DOMAIN c \ {"prompts_today", "last_reset_date"} :
                             out[f] = c[f]

\* a counter with usage was rolled over twice with a date two or more days
\* after the one it held
C13_Witness ==
    /\ result.fn = "rollover"
    /\ result.times = 2
    /\ "last_reset_date" \in DOMAIN arg.counter
    /\ arg.counter["prompts_today"] > 0
    /\ arg.day >= arg.counter["last_reset_date"] + 2
    /\ result.counter["prompts_today"] = 0
\* ------------------------------------------ concurrent statistics updates
\* A request of FirstUser that has passed the gate, generated and saved its
\* event, and is entering update_prompt_usage_stats (line 396).
AtConsume ==
    [IdleReq EXCEPT !.pc = "stats_read",
                    !.cred = [bearer |-> TRUE, token |-> FirstUser],
                    !.user = FirstUser, !.gen = "ok",
                    !.gate_reads = 1, !.events = 1, !.consumes = 1]

\* NumCalls requests of one user have passed the gate together and are all
\* about to update the statistics.
InitConsume ==
    /\ firebase_initialized = TRUE
    /\ accounts = {FirstUser}
    /\ \E withDoc \in SUBSET accounts :
          users \in [withDoc -> InitDocs]
    /\ users0 = users
    /\ prompts = {[id |-> r, user_id |-> FirstUser] : r \in 1..NumCalls}
    /\ today = 0
    /\ req = [r \in 1..NumCalls |-> AtConsume]
    /\ log = {}
    /\ arg = NoCall
    /\ result = NoCall

NextConsume ==
    \/ Tick
    \/ \E r \in DOMAIN req : StatsRead(r)
    \/ \E r \in DOMAIN req : StatsCompute(r)
    \/ \E r \in DOMAIN req : StatsWrite(r)

SpecConsume == InitConsume /\ [][NextConsume]_vars

\* C14: no step decreases the stored total_prompts of a user, and it is
\* never negative.
C14_TotalMonotonic ==
    [][\A u \in DOMAIN users :
          /\ users[u]["total_prompts"] >= 0
          /\ users'[u]["total_prompts"] >= users[u]["total_prompts"]]_vars
\* ------------------------------------------------- prompt quality scorer
MinLength == 50            \* line 731
MaxLength == 500           \* line 731
ObjectiveMinWords == 20    \* line 729
MaxWords == 2              \* vocabulary words at the end of a prompt

\* A prompt is `fill` copies of Filler separated by single spaces, followed
\* by words of the Vocabulary, each preceded by a whitespace separator.
Filler == "lorem"

Vocabulary ==
    {"Specific", "information", "MUST", "example", "for", "instance",
     "formal", "goal", "lighting", "pace", "test"}

Separators == {" ", "\n"}

PromptWords == [sep : Separators, w : Vocabulary]

\* word counts on both sides of the thresholds of lines 729 and 731
Fills ==
    {0, ObjectiveMinWords - 1, ObjectiveMinWords,
     MinLength - 2, MinLength - 1, MinLength,
     MaxLength - 1, MaxLength, MaxLength + 1}

Prompts ==
    [fill : Fills, words : UNION {[1..n -> PromptWords] : n \in 0..MaxWords}]

\* len(prompt.split()), lines 716-717: whitespace never occurs inside a
\* word, and leading whitespace yields no token
WordCount_splitOnSpace(prompt) ==
    IF prompt.fill + Len(prompt.words) = 0
    THEN 1
    ELSE prompt.fill + Len(prompt.words)

WordCount(prompt) == prompt.fill + Len(prompt.words)

\* str.lower() on the words of a prompt
Lower(w) ==
    CASE w = "Specific" -> "specific"
      [] w = "MUST" -> "must"
      [] OTHER -> w

\* the keywords of lines 720-743 that occur as substrings of a word
Substrings(w) ==
    CASE w = "specific" -> {"specific"}
      [] w = "information" -> {"format"}
      [] w = "must" -> {"must"}
      [] w = "example" -> {"example"}
      [] w = "formal" -> {"formal"}
      [] w = "goal" -> {"goal"}
      [] w = "lighting" -> {"lighting"}
      [] w = "pace" -> {"pace"}
      [] w = "test" -> {"test"}
      [] OTHER -> {}

\* any(word in prompt.lower() for word in keywords): no keyword contains
\* whitespace, so a keyword occurs in the prompt iff it occurs in a word
AnyIn(keywords, prompt) ==
    \E i \in DOMAIN prompt.words :
        Substrings(Lower(prompt.words[i].w)) \cap keywords # {}

\* "for instance" in prompt.lower(), line 726: "for" ends a word, one
\* space follows, and "instance" starts the next word
ForInstanceIn(prompt) ==
    \E i \in DOMAIN prompt.words :
        /\ i + 1 \in DOMAIN prompt.words
        /\ Lower(prompt.words[i].w) = "for"
        /\ prompt.words[i + 1].sep = " "
        /\ Lower(prompt.words[i + 1].w) = "instance"

\* line 731
AppropriateLength_strict(word_count) ==
    MinLength < word_count /\ word_count <= MaxLength

AppropriateLength(word_count) ==
    MinLength <= word_count /\ word_count <= MaxLength

\* lines 719-732
CommonIndicators(prompt) ==
    [specificity |->
        AnyIn({"specific", "detailed", "exact", "precise", "concrete"}, prompt),
     structure |->
        AnyIn({"format", "structure", "section", "outline", "template"}, prompt),
     constraints |->
        AnyIn({"must", "should", "require", "constraint", "limit"}, prompt),
     examples |-> AnyIn({"example"}, prompt) \/ ForInstanceIn(prompt),
     tone_appropriate |->
        AnyIn({"professional", "formal", "academic", "technical"}, prompt),
     has_objective |->
        /\ WordCount(prompt) > ObjectiveMinWords
        /\ AnyIn({"objective", "goal", "purpose", "aim"}, prompt),
     appropriate_length |-> AppropriateLength(WordCount(prompt))]

\* lines 735-743
TypeIndicators(prompt, prompt_type) ==
    CASE prompt_type = "image" ->
            [visual_elements |->
                AnyIn({"lighting", "composition", "style", "angle", "resolution"},
                      prompt)]
      [] prompt_type = "video" ->
            [temporal_elements |->
                AnyIn({"movement", "sequence", "timing", "duration", "pace"},
                      prompt)]
      [] prompt_type = "code" ->
            [technical_specs |->
                AnyIn({"function", "input", "output", "test", "error"}, prompt)]
      [] OTHER -> EmptyDict

QualityIndicators(prompt, prompt_type) ==
    Merge(CommonIndicators(prompt), TypeIndicators(prompt, prompt_type))

\* round(x, 1) of x = num / den, as a number of tenths (the nearest one).
\* x is never half way between two tenths for the values of line 748:
\* with max_score 7, 2000 * score is even and 7 * (2k + 1) is odd; with
\* max_score 8, x = 12.5 * score is a multiple of 0.5.
Round1_truncating(num, den) == (10 * num) \div den

Round1(num, den) == (20 * num + den) \div (2 * den)

\* lines 757-779
GenerateRecommendations_allTypes(indicators, prompt_type) ==
    (IF ~indicators["specificity"]
        THEN <<"Add more specific details and concrete requirements">>
        ELSE <<>>)
    \o (IF ~indicators["structure"]
        THEN <<"Consider adding a clear structure or format specification">>
        ELSE <<>>)
    \o (IF ~indicators["constraints"]
        THEN <<"Define constraints or limitations to guide the AI">>
        ELSE <<>>)
    \o (IF ~indicators["examples"]
        THEN <<"Include examples to clarify expected output">>
        ELSE <<>>)
    \o (IF prompt_type = "image" /\ ~indicators["visual_elements"]
        THEN <<"Add more visual details like lighting, composition, or style">>
        ELSE <<>>)
    \o (IF prompt_type = "video" /\ ~indicators["temporal_elements"]
        THEN <<"Include temporal elements like pacing, sequencing, or duration">>
        ELSE <<>>)

GenerateRecommendations(indicators, prompt_type) ==
    (IF ~indicators["specificity"]
        THEN <<"Add more specific details and concrete requirements">>
        ELSE <<>>)
    \o (IF ~indicators["structure"]
        THEN <<"Consider adding a clear structure or format specification">>
        ELSE <<>>)
    \o (IF ~indicators["constraints"]
        THEN <<"Define constraints or limitations to guide the AI">>
        ELSE <<>>)
    \o (IF ~indicators["examples"] /\ prompt_type \in {"text", "code", "data"}
        THEN <<"Include examples to clarify expected output">>
        ELSE <<>>)
    \o (IF prompt_type = "image" /\ ~indicators["visual_elements"]
        THEN <<"Add more visual details like lighting, composition, or style">>
        ELSE <<>>)
    \o (IF prompt_type = "video" /\ ~indicators["temporal_elements"]
        THEN <<"Include temporal elements like pacing, sequencing, or duration">>
        ELSE <<>>)

\* lines 714-755; quality_score is held in tenths
AnalyzePromptQuality(prompt, prompt_type) ==
    LET word_count == WordCount(prompt)
        quality_indicators == QualityIndicators(prompt, prompt_type)
        score == Cardinality({k \in DOMAIN quality_indicators :
                                 quality_indicators[k]})
        max_score == Cardinality(DOMAIN quality_indicators)
    IN [quality_score |-> Round1(score * 100, max_score),
        indicators |-> quality_indicators,
        word_count |-> word_count,
        recommendations |->
            GenerateRecommendations(quality_indicators, prompt_type)]

InitScore ==
    /\ NoRequests
    /\ arg \in [fn : {"score"}, prompt : Prompts, prompt_type : PromptTypes]
    /\ result = NoCall

\* one call of analyze_prompt_quality(arg.prompt, arg.prompt_type)
Score ==
    /\ arg.fn = "score"
    /\ result = NoCall
    /\ result' = [fn |-> "score",
                  report |-> AnalyzePromptQuality(arg.prompt, arg.prompt_type)]
    /\ UNCHANGED <<handling, arg>>

NextScore == Score

SpecScore == InitScore /\ [][NextScore]_vars

\* the number of whitespace-separated tokens of the prompt that was scored
ScoredTokens == arg.prompt.fill + Len(arg.prompt.words)

\* C16: in every report, appropriate_length is true exactly when the word
\* count is between 50 and 500 inclusive, the word count being the number of
\* whitespace-separated tokens of the text.
C16_AppropriateLengthBounds ==
    result.fn = "score" =>
        /\ result.report.word_count = ScoredTokens
        /\ result.report.indicators["appropriate_length"]
              = (50 <= ScoredTokens /\ ScoredTokens <= 500)
        /\ ScoredTokens \in {49, 501} =>
              ~result.report.indicators["appropriate_length"]
        /\ ScoredTokens \in {50, 500} =>
              result.report.indicators["appropriate_length"]

\* a text of exactly 50 tokens, some of them separated by a line break, was
\* scored and found of appropriate length
C16_Witness ==
    /\ result.fn = "score"
    /\ ScoredTokens = 50
    /\ \E i \in DOMAIN arg.prompt.words : arg.prompt.words[i].sep = "\n"
    /\ result.report.indicators["appropriate_length"]

\* C17: the score is 100 * (true indicators) / (all indicators) rounded to
\* the nearest tenth, with 7 indicators for text, audio and data and 8 for
\* image, video and code; it lies between 0 and 100.  (Scores in tenths.)
C17_ScoreFormula ==
    result.fn = "score" =>
        LET ind == result.report.indicators
            trues == Cardinality({k \in DOMAIN ind : ind[k]})
            total == IF arg.prompt_type \in {"image", "video", "code"}
                     THEN 8 ELSE 7
            tenths == result.report.quality_score
            off == tenths * total - 1000 * trues
        IN /\ Cardinality(DOMAIN ind) = total
           /\ 2 * off <= total
           /\ -2 * off <= total
           /\ 0 <= tenths
           /\ tenths <= 1000

\* one of seven indicators held: 14.2857... was reported as 14.3
C17_Witness ==
    /\ result.fn = "score"
    /\ arg.prompt_type \in {"text", "audio", "data"}
    /\ Cardinality({k \in DOMAIN result.report.indicators :
                       result.report.indicators[k]}) = 1
    /\ result.report.quality_score = 143

\* C18 as stated: every false indicator of a report contributes exactly one
\* advisory, so there are as many advisories as false indicators.
C18_EveryFalseIndicatorAdvises ==
    result.fn = "score" =>
        Len(result.report.recommendations)
            = Cardinality({k \in DOMAIN result.report.indicators :
                              ~result.report.indicators[k]})

\* C18: the advisories of a report are, in the fixed order specificity,
\* structure, constraints, examples, visual_elements, temporal_elements, one
\* fixed string for each of these indicators that is present and false,
\* the one for examples only for the types text, code and data; the
\* indicators tone_appropriate, has_objective, appropriate_length and
\* technical_specs have no advisory.
C18_AdvisoriesInPriorityOrder ==
    result.fn = "score" =>
        LET ind == result.report.indicators
            Priority == <<"specificity", "structure", "constraints",
                          "examples", "visual_elements", "temporal_elements">>
            Advisory ==
                [specificity |->
                    "Add more specific details and concrete requirements",
                 structure |->
                    "Consider adding a clear structure or format specification",
                 constraints |->
                    "Define constraints or limitations to guide the AI",
                 examples |-> "Include examples to clarify expected output",
                 visual_elements |->
                    "Add more visual details like lighting, composition, or style",
                 temporal_elements |->
                    "Include temporal elements like pacing, sequencing, or duration"]
            Advised(k) ==
                /\ k \in DOMAIN ind
                /\ ~ind[k]
                /\ k = "examples" => arg.prompt_type \in {"text", "code", "data"}
            due == SelectSeq(Priority, Advised)
        IN result.report.recommendations
              = [i \in 1..Len(due) |-> Advisory[due[i]]]

\* an image prompt without examples, tone or visual keywords was scored: the
\* advisories include the visual one and are fewer than the false indicators
C18_Witness ==
    /\ result.fn = "score"
    /\ arg.prompt_type = "image"
    /\ ~result.report.indicators["examples"]
    /\ ~result.report.indicators["tone_appropriate"]
    /\ ~result.report.indicators["visual_elements"]
    /\ result.report.indicators["specificity"]
    /\ Len(result.report.recommendations) = 3

\* the empty text: no filler and no word
EmptyPrompt == arg.prompt.fill = 0 /\ arg.prompt.words = <<>>

\* C19: scoring the empty text returns a report, with word count 0, every
\* indicator false and score 0, for any prompt type.
C19_EmptyTextScoresZero ==
    EmptyPrompt =>
        /\ result = NoCall => ENABLED Score
        /\ result.fn = "score" =>
              /\ result.report.word_count = 0
              /\ \A k \in DOMAIN result.report.indicators :
                    ~result.report.indicators[k]
              /\ result.report.quality_score = 0

\* the empty text was scored as a code prompt (eight indicators)
C19_Witness ==
    /\ EmptyPrompt
    /\ arg.prompt_type = "code"
    /\ result.fn = "score"
    /\ Cardinality(DOMAIN result.report.indicators) = 8
    /\ result.report.quality_score = 0

\* ----------------------------------------------------- effect of a consume
\* the fields update_prompt_usage_stats computes (lines 149-163)
StatsFields == {"total_prompts", "prompts_today", "last_reset_date"}

\* C20: with requests handled one after another (no other writer of the
\* user's document between the read and the write of a consume), the write
\* of a consume stores prompts_today one above the stored value rolled over
\* to the date the consume used (the stored value for that same date, 0 for
\* an earlier date or no count) and total_prompts one above the stored
\* value (0 if none); every other field of the document and every other
\* user's document are as before.
C20_ConsumeEffect ==
    [][\A r \in Reqs :
          ConsumeWrite(r) =>
              LET u == req[r].user
                  old == IF u \in DOMAIN users THEN users[u] ELSE EmptyDict
                  day == users'[u]["last_reset_date"]
                  rolled == IF /\ "last_reset_date" \in DOMAIN old
                               /\ old["last_reset_date"] = day
                            THEN Get(old, "prompts_today", 0)
                            ELSE 0
              IN /\ day <= today
                 /\ "last_reset_date" \in DOMAIN old => old["last_reset_date"] <= day
                 /\ users'[u]["prompts_today"] = rolled + 1
                 /\ users'[u]["total_prompts"] = Get(old, "total_prompts", 0) + 1
                 /\ DOMAIN users'[u] = DOMAIN old \cup StatsFields
                 /\ \A f \in DOMAIN old \ StatsFields : users'[u][f] = old[f]
                 /\ DOMAIN users' = DOMAIN users \cup {u}
                 /\ \A v \in DOMAIN users \ {u} : users'[v] = users[v]]_vars

\* FirstUser, holding a plan document, consumed on the day after the stored
\* date: the daily count restarted at 1, the lifetime count went up by one,
\* the plan fields stayed, and the document of the other user is the one
\* register wrote
C20_Witness ==
    /\ FirstUser \in DOMAIN users0
    /\ "plan" \in DOMAIN users0[FirstUser]
    /\ \E r \in Reqs :
          /\ req[r].user = FirstUser
          /\ req[r].pc = "done"
          /\ req[r].writes = 1
    /\ users[FirstUser]["last_reset_date"] = 1
    /\ users[FirstUser]["prompts_today"] = 1
    /\ users[FirstUser]["total_prompts"] = users0[FirstUser]["total_prompts"] + 1
    /\ users[FirstUser]["daily_limit"] = users0[FirstUser]["daily_limit"]
    /\ users[FirstUser]["plan"] = users0[FirstUser]["plan"]
    /\ \E v \in DOMAIN users \ {FirstUser} : users[v] = RegisterDoc

\* ------------------------------------------------- the check and the store
\* the document of u in coll holds a daily counter
HasCounter(coll, u) == u \in DOMAIN coll /\ "prompts_today" \in DOMAIN coll[u]

\* this step ends the quota check of request r, whatever its outcome
CheckStep(r) == req[r].pc = "check" /\ req'[r].pc # "check"

\* C21: a quota check, allowed, denied or failed, with or without a stored
\* document, writes nothing to the store; a user's daily counter comes into
\* existence only in the write of a consume of that user.
C21_CheckIsReadOnly ==
    [][/\ \A r \in Reqs :
             CheckStep(r) => users' = users /\ prompts' = prompts
       /\ \A u \in Users :
             (HasCounter(users', u) /\ ~HasCounter(users, u)) =>
                 \E r \in Reqs : ConsumeWrite(r) /\ req[r].user = u]_vars

\* a user without a document was checked and allowed, the request ended in
\* a failed generation, and there is still no document
C21_Witness ==
    \E r \in Reqs :
        /\ req[r].user \in Users
        /\ req[r].gate_reads = 1
        /\ req[r].pc = "done"
        /\ req[r].gen = "fail"
        /\ req[r].user \notin DOMAIN users

\* C23: a request invokes update_prompt_usage_stats at most once, only as
\* an authenticated request whose generation and scoring succeeded, and
\* an authenticated request that answers after a successful generation has
\* invoked it exactly once.
C23_CountedOncePerSuccess ==
    \A r \in Reqs :
        /\ req[r].consumes <= 1
        /\ req[r].consumes = 1 => req[r].gen = "ok" /\ req[r].user # None
        /\ (req[r].gen = "ok" /\ req[r].user # None /\ req[r].pc # "save")
              => req[r].consumes = 1
        /\ req[r].gen # "ok" => req[r].writes = 0

\* an authenticated request whose event could not be saved was counted
\* once all the same
C23_Witness ==
    \E r \in Reqs :
        /\ req[r].user # None
        /\ req[r].pc = "done"
        /\ req[r].gen = "ok"
        /\ req[r].events = 0
        /\ req[r].consumes = 1
        /\ req[r].writes = 1

\* ------------------------------------------- a request after the consumes
\* the request that arrives after the concurrent ones have been answered
LaterReq == NumCalls + 1

\* NumCalls requests of one user are about to update the statistics, and
\* one more request has not arrived yet.
InitLater ==
    /\ firebase_initialized = TRUE
    /\ accounts = {FirstUser}
    /\ \E withDoc \in SUBSET accounts :
          users \in [withDoc -> InitDocs]
    /\ users0 = users
    /\ prompts = {[id |-> r, user_id |-> FirstUser] : r \in 1..NumCalls}
    /\ today = 0
    /\ req = [r \in 1..LaterReq |-> IF r = LaterReq THEN IdleReq ELSE AtConsume]
    /\ log = {}
    /\ arg = NoCall
    /\ result = NoCall

\* the later request arrives when every earlier one has been answered
StartLater ==
    /\ \A r \in 1..NumCalls : req[r].pc = "done"
    /\ Start(LaterReq)

NextLater ==
    \/ Tick
    \/ \E r \in DOMAIN req : StatsRead(r)
    \/ \E r \in DOMAIN req : StatsCompute(r)
    \/ \E r \in DOMAIN req : StatsWrite(r)
    \/ StartLater
    \/ Check(LaterReq)

SpecLater == InitLater /\ [][NextLater]_vars

\* C22: the check of a request reads a prompts_today at least as large as
\* the one stored today by any request of the same caller that has been
\* answered with success.
C22_ReadYourWrites ==
    [][\A r \in DOMAIN req : \A r2 \in DOMAIN req \ {r} :
          ( /\ CheckRead(r)
            /\ req[r2].user = req[r].user
            /\ req[r2].pc = "done"
            /\ req[r2].status = 200
            /\ req[r2].writes = 1
            /\ req[r2].stored["last_reset_date"] = today )
          => StoredUsed(req[r].user) >= req[r2].stored["prompts_today"]]_vars

\* ------------------------------------------------ the limit, sequentially
\* the requests of u that have passed the quota check
Admitted(u) ==
    {r \in Reqs : /\ req[r].user = u
                  /\ req[r].gate_reads = 1
                  /\ ~(req[r].pc = "done" /\ req[r].status = 429)}

\* C24 as stated: with the requests handled one at a time, the stored
\* prompts_today never exceeds daily_limit and at most daily_limit requests
\* of a user pass the check within a day.
C24_AdmittedWithinLimit ==
    \A u \in DOMAIN users :
        /\ StoredUsed(u) <= StoredLimit(u)
        /\ today = 0 => Cardinality(Admitted(u)) <= StoredLimit(u)

\* C24: with the requests handled one at a time, the stored prompts_today
\* never exceeds daily_limit, and the requests of a user counted within a
\* day, added to the count the day started with, never exceed daily_limit;
\* requests that pass the check and are not counted (failed generation,
\* failed statistics update) do not use up the limit.
C24_CountedWithinLimit ==
    \A u \in DOMAIN users :
        /\ StoredUsed(u) <= StoredLimit(u)
        /\ today = 0 => InitialCount(u) + Served(u) <= StoredLimit(u)

\* with the requests handled one at a time, a user reached the limit with
\* one counted request after another request had passed the check and
\* failed in generation
C24_Witness ==
    \E u \in DOMAIN users :
        /\ StoredUsed(u) = StoredLimit(u)
        /\ Served(u) >= 1
        /\ Cardinality(Admitted(u)) > StoredLimit(u)
        /\ \E r \in Admitted(u) : req[r].gen = "fail"

\* ------------------------------------------------------ the stored date
\* the document of u in coll holds a reset date
HasDate(coll, u) == u \in DOMAIN coll /\ "last_reset_date" \in DOMAIN coll[u]

\* C25: no step moves a user's stored last_reset_date back to an earlier
\* date, and the write of a consume leaves the date of the day it is made.
C25_WindowStartMonotonic ==
    [][/\ \A u \in Users :
             (HasDate(users, u) /\ HasDate(users', u)) =>
                 users'[u]["last_reset_date"] >= users[u]["last_reset_date"]
       /\ \A r \in Reqs :
             ConsumeWrite(r) => users'[req[r].user]["last_reset_date"] = today]_vars
====
